---- MODULE Spec2Model ----
(***************************************************************************)
(* NewSight navigation backend: the in-memory navigation session store of  *)
(* NavigationService (app/services/navigation_service.py) and the HTTP and *)
(* WebSocket handlers that drive it (app/routes/navigation_routes.py), the *)
(* location store of app/routes/location_routes.py, and the transit        *)
(* routes of NavigationService.get_transit_routes.                         *)
(*                                                                         *)
(* The handlers are coroutines of one event loop and call the service      *)
(* synchronously, so a handler's work between two awaits is one step.  The *)
(* provider calls of a start request are steps of their own; the handler   *)
(* holds the event loop across them and no other handler runs meanwhile.   *)
(***************************************************************************)
EXTENDS Integers, Sequences, FiniteSets, TLC

VARIABLES
    gmaps,               \* NavigationService.gmaps: TRUE for a client, FALSE for None
    TRANSIT_API_KEY,     \* navigation_service.TRANSIT_API_KEY: TRUE when the key is set
    active_navigations,  \* NavigationService.active_navigations: session_id -> nav dict
    user_locations,      \* location_routes.user_locations: session_id -> stored fix
    nav_ws,              \* the navigation WebSocket connections and their session_id
    loc_ws,              \* the location WebSocket connections and their session_id
    inflight,            \* the frame of the /navigation/start handler awaiting a provider
    req,                 \* the request or message the last handler served
    resp,                \* what that handler returned or sent
    heard,               \* per listened session: proximity tiers announced on the current step
    announced_at,        \* per listened session: {d} while the latest updates were all at
                         \* distance d and one of them announced a tier, else {}
    inbox,               \* per watched stream: the frames the client has sent on it that
                         \* receive_text has not returned yet, and how many it has sent
    served               \* per watched stream: the numbers of the frames the main loop
                         \* has applied and answered, in that order

vars == <<gmaps, TRANSIT_API_KEY, active_navigations, user_locations, nav_ws, loc_ws, inflight, req, resp,
          heard, announced_at, inbox, served>>

----------------------------------------------------------------------------
(* Bounds and input sets *)

\* The longest route the directions provider returns, in steps
MaxSteps == 2

\* The most frames a client sends on one navigation stream after its first
MaxMessages == 3

SessionIds == {"s1", "s2"}

Connections == {"c1", "c2"}

\* Connections to the location WebSocket
LocConnections == {"l1", "l2"}

\* Coordinates of location messages, as the JSON numbers they carry
Latitudes == {"39.9812", "39.9526"}

Longitudes == {"-75.1556"}

\* Distances (metres) from the reported position to the end of the current
\* step, as _haversine_distance returns them: below the completion radius,
\* inside each announcement window (20 and 60 and 90 on a closed bound, 105 in
\* the overlap of the 100 m window with "far"), between windows, and far.
Distances == {15, 20, 35, 60, 90, 105, 120}

\* Destination texts of start requests
Destinations == {"CVS", "the nearest Starbucks!", "123 Main St", "Target on Broad Street"}

None == "None"

----------------------------------------------------------------------------
(* Python str operations, on TLA+ strings *)

Char(s, i) == SubSeq(s, i, i)

UpperCase == "ABCDEFGHIJKLMNOPQRSTUVWXYZ"

LowerCase == "abcdefghijklmnopqrstuvwxyz"

DigitChars == "0123456789"

CharIn(c, alphabet) == \E i \in 1..Len(alphabet) : Char(alphabet, i) = c

\* str.isdigit of one character
IsDigit(c) == CharIn(c, DigitChars)

\* \w of the re module: a letter, a digit or the underscore
IsWordChar(c) == CharIn(c, UpperCase) \/ CharIn(c, LowerCase) \/ IsDigit(c) \/ c = "_"

IsSpace(c) == c = " "

LowerChar(c) ==
    IF CharIn(c, UpperCase)
    THEN Char(LowerCase, CHOOSE i \in 1..Len(UpperCase) : Char(UpperCase, i) = c)
    ELSE c

RECURSIVE Lower(_)
\* str.lower
Lower(s) == IF s = "" THEN "" ELSE LowerChar(Char(s, 1)) \o Lower(SubSeq(s, 2, Len(s)))

RECURSIVE LStrip(_)
LStrip(s) == IF s # "" /\ IsSpace(Char(s, 1)) THEN LStrip(SubSeq(s, 2, Len(s))) ELSE s

RECURSIVE RStripChars(_, _)
\* str.rstrip(chars)
RStripChars(s, chars) ==
    IF s # "" /\ CharIn(Char(s, Len(s)), chars)
    THEN RStripChars(SubSeq(s, 1, Len(s) - 1), chars)
    ELSE s

\* str.strip
Strip(s) == RStripChars(LStrip(s), " ")

\* sub in s
Contains(s, sub) ==
    \E i \in 1..(Len(s) - Len(sub) + 1) : SubSeq(s, i, i + Len(sub) - 1) = sub

\* \b of the re module at the gap before position i of s
WordBoundary(s, i) ==
    LET w(j) == j >= 1 /\ j <= Len(s) /\ IsWordChar(Char(s, j))
    IN  w(i - 1) # w(i)

MatchesWordAt(s, word, i) ==
    /\ i + Len(word) - 1 <= Len(s)
    /\ SubSeq(s, i, i + Len(word) - 1) = word
    /\ WordBoundary(s, i)
    /\ WordBoundary(s, i + Len(word))

RECURSIVE RemoveWordFrom(_, _, _)
RemoveWordFrom(s, word, i) ==
    IF i > Len(s) THEN ""
    ELSE IF MatchesWordAt(s, word, i) THEN RemoveWordFrom(s, word, i + Len(word))
    ELSE Char(s, i) \o RemoveWordFrom(s, word, i + 1)

\* re.sub(r'\b' + re.escape(word) + r'\b', '', s)
RemoveWord(s, word) == RemoveWordFrom(s, word, 1)

RECURSIVE CollapseSpaces(_)
\* ' '.join(s.split())
CollapseSpaces(s) ==
    LET t == LStrip(s)
    IN  IF t = "" THEN ""
        ELSE IF Len(t) >= 2 /\ IsSpace(Char(t, 2))
             THEN (IF LStrip(SubSeq(t, 2, Len(t))) = "" THEN Char(t, 1)
                   ELSE Char(t, 1) \o " " \o CollapseSpaces(SubSeq(t, 2, Len(t))))
             ELSE Char(t, 1) \o CollapseSpaces(SubSeq(t, 2, Len(t)))

----------------------------------------------------------------------------
(* NavigationService._clean_destination *)

filler_words ==
    <<"nearest", "closest", "nearby", "near me", "close by",
      "the", "a", "an", "my", "some", "please", "find", "locate">>

RECURSIVE RemoveFillers(_, _)
RemoveFillers(s, k) ==
    IF k > Len(filler_words) THEN s
    ELSE RemoveFillers(RemoveWord(s, filler_words[k]), k + 1)

_clean_destination(destination) ==
    LET stripped == RStripChars(Strip(destination), ".!?,;:")
        lowered  == Lower(stripped)
        cleaned  == Strip(CollapseSpaces(RemoveFillers(lowered, 1)))
    IN  IF cleaned # "" THEN cleaned ELSE Lower(destination)

----------------------------------------------------------------------------
(* NavigationService._is_generic_place_name *)

generic_terms ==
    <<"starbucks", "dunkin", "mcdonalds", "subway", "pizza", "restaurant", "cafe", "coffee",
      "burger king", "taco bell", "wendys", "chipotle", "panera", "chick-fil-a",
      "cvs", "walgreens", "walmart", "target", "grocery store", "supermarket",
      "rite aid", "7-eleven", "wawa", "convenience store",
      "bank", "atm", "pharmacy", "post office", "ups store", "fedex",
      "gas station", "auto repair", "car wash",
      "bus stop", "train station", "subway station", "metro station",
      "transit center", "bus station", "septa",
      "hospital", "urgent care", "clinic", "doctor", "dentist", "pharmacy",
      "gym", "library", "park", "playground", "museum", "movie theater", "cinema",
      "hotel", "motel", "bar", "pub", "nightclub",
      "church", "mosque", "synagogue", "temple", "school", "university", "college",
      "mall", "shopping center", "parking garage", "parking lot", "rest area",
      "public restroom", "bathroom", "police station", "fire station">>

address_indicators == <<"street", "st", "avenue", "ave", "road", "rd", "blvd", "drive", "dr">>

\* _is_generic_place_name looking at the generic terms only
_is_generic_place_name_terms_only(destination) ==
    LET destination_lower == Strip(Lower(destination))
    IN  \E t \in 1..Len(generic_terms) :
            generic_terms[t] = destination_lower \/ Contains(destination_lower, generic_terms[t])

_is_generic_place_name(destination) ==
    LET destination_lower == Strip(Lower(destination))
        has_address == \E k \in 1..Len(address_indicators) :
                           Contains(destination_lower, address_indicators[k])
        has_numbers == \E i \in 1..Len(destination) : IsDigit(Char(destination, i))
    IN  \E t \in 1..Len(generic_terms) :
            /\ generic_terms[t] = destination_lower \/ Contains(destination_lower, generic_terms[t])
            /\ ~has_address
            /\ ~has_numbers

----------------------------------------------------------------------------
(* get_directions, lines 72 and 77, on each destination text: the cleaned  *)
(* destination and whether it is taken for a generic place name            *)

cleaned_destination_of == [t \in Destinations |-> _clean_destination(t)]

is_generic_of == [t \in Destinations |-> _is_generic_place_name(cleaned_destination_of[t])]

----------------------------------------------------------------------------
(* Python dict operations on a dict modelled as a function *)

DictSet(d, k, v) == [x \in (DOMAIN d) \cup {k} |-> IF x = k THEN v ELSE d[x]]

DictPop(d, k) == [x \in (DOMAIN d) \ {k} |-> d[x]]

----------------------------------------------------------------------------
(* Routes as get_directions returns them *)

NavigationStep(i) == [instruction |-> "turn " \o ToString(i), distance_meters |-> 100 * i]

DirectionsResponse(n) ==
    [status |-> "success", destination |-> "place " \o ToString(n), steps |-> [i \in 1..n |-> NavigationStep(i)]]

\* int(distance_feet) with distance_feet = distance_to_step_end * 3.28084
Feet(d) == (d * 328084) \div 100000

\* The announcement texts of update_location
NoAnnouncement == [text |-> "None"]

InFeet(d, instr) == [text |-> "In {feet} feet, {instruction}", feet |-> Feet(d), instruction |-> instr]

In100Meters(instr) == [text |-> "In 100 meters, {instruction}", instruction |-> instr]

Instruction(instr) == [text |-> "{instruction}", instruction |-> instr]

----------------------------------------------------------------------------
(* NavigationService.update_location *)

ArrivedUpdate(steps) ==
    [status |-> "arrived", current_step |-> Len(steps), total_steps |-> Len(steps),
     instruction |-> "You have arrived", distance_to_next |-> 0,
     should_announce |-> TRUE, announcement |-> [text |-> "You have arrived at your destination"]]

NavigatingUpdate(nav, idx, d, should_announce, announcement) ==
    [status |-> "navigating", current_step |-> idx + 1, total_steps |-> nav.total_steps,
     instruction |-> nav.steps[idx + 1].instruction, distance_to_next |-> d,
     should_announce |-> should_announce, announcement |-> announcement]

\* Proximity with the 25 m window open at its near end
ProximityOpenWindow(nav, idx, d) ==
    LET instr == nav.steps[idx + 1].instruction
        last  == nav.last_announcement
    IN  IF d > 100 /\ last # "far"
        THEN [nav |-> [nav EXCEPT !.last_announcement = "far"],
              ret |-> NavigatingUpdate(nav, idx, d, FALSE, NoAnnouncement)]
        ELSE IF 90 <= d /\ d <= 110 /\ last # "100m"
        THEN [nav |-> [nav EXCEPT !.last_announcement = "100m"],
              ret |-> NavigatingUpdate(nav, idx, d, TRUE,
                         IF Feet(d) < 528 THEN InFeet(d, instr)
                                          ELSE In100Meters(instr))]
        ELSE IF 40 <= d /\ d <= 60 /\ last # "50m"
        THEN [nav |-> [nav EXCEPT !.last_announcement = "50m"],
              ret |-> NavigatingUpdate(nav, idx, d, TRUE, InFeet(d, instr))]
        ELSE IF 20 < d /\ d <= 30 /\ last # "25m"
        THEN [nav |-> [nav EXCEPT !.last_announcement = "25m"],
              ret |-> NavigatingUpdate(nav, idx, d, TRUE, InFeet(d, instr))]
        ELSE [nav |-> nav, ret |-> NavigatingUpdate(nav, idx, d, FALSE, NoAnnouncement)]

\* The proximity branch: the session record after the update and the reply.
Proximity(nav, idx, d) ==
    LET instr == nav.steps[idx + 1].instruction
        last  == nav.last_announcement
    IN  IF d > 100 /\ last # "far"
        THEN [nav |-> [nav EXCEPT !.last_announcement = "far"],
              ret |-> NavigatingUpdate(nav, idx, d, FALSE, NoAnnouncement)]
        ELSE IF 90 <= d /\ d <= 110 /\ last # "100m"
        THEN [nav |-> [nav EXCEPT !.last_announcement = "100m"],
              ret |-> NavigatingUpdate(nav, idx, d, TRUE,
                         IF Feet(d) < 528 THEN InFeet(d, instr)
                                          ELSE In100Meters(instr))]
        ELSE IF 40 <= d /\ d <= 60 /\ last # "50m"
        THEN [nav |-> [nav EXCEPT !.last_announcement = "50m"],
              ret |-> NavigatingUpdate(nav, idx, d, TRUE, InFeet(d, instr))]
        ELSE IF 20 <= d /\ d <= 30 /\ last # "25m"
        THEN [nav |-> [nav EXCEPT !.last_announcement = "25m"],
              ret |-> NavigatingUpdate(nav, idx, d, TRUE, InFeet(d, instr))]
        ELSE [nav |-> nav, ret |-> NavigatingUpdate(nav, idx, d, FALSE, NoAnnouncement)]

\* CompleteStep with the route started over at its end instead of the session
\* being removed
CompleteStepStartOver(navs, session_id, d) ==
    LET nav  == navs[session_id]
        nav1 == [nav EXCEPT !.current_step_index = (@ + 1) % Len(nav.steps),
                            !.last_announcement = None,
                            !.last_announced_distance = None]
        next_step == nav.steps[nav1.current_step_index + 1]
    IN  [navs |-> DictSet(navs, session_id, nav1),
         ret  |-> [status |-> "step_completed",
                   current_step |-> nav1.current_step_index + 1,
                   total_steps |-> nav.total_steps,
                   instruction |-> next_step.instruction,
                   distance_to_next |-> next_step.distance_meters,
                   should_announce |-> TRUE,
                   announcement |-> Instruction(next_step.instruction)]]

\* CompleteStep passing over the step that follows the completed one
CompleteStepSkipping(navs, session_id, d) ==
    LET nav  == navs[session_id]
        nav1 == [nav EXCEPT !.current_step_index = @ + 2,
                            !.last_announcement = None,
                            !.last_announced_distance = None]
    IN  IF nav1.current_step_index >= Len(nav.steps)
        THEN [navs |-> DictPop(navs, session_id), ret |-> ArrivedUpdate(nav.steps)]
        ELSE LET next_step == nav.steps[nav1.current_step_index + 1]
             IN  [navs |-> DictSet(navs, session_id, nav1),
                  ret  |-> [status |-> "step_completed",
                            current_step |-> nav1.current_step_index + 1,
                            total_steps |-> nav.total_steps,
                            instruction |-> next_step.instruction,
                            distance_to_next |-> next_step.distance_meters,
                            should_announce |-> TRUE,
                            announcement |-> Instruction(next_step.instruction)]]

\* CompleteStep leaving last_announcement as it was
CompleteStepKeepingTier(navs, session_id, d) ==
    LET nav  == navs[session_id]
        nav1 == [nav EXCEPT !.current_step_index = @ + 1,
                            !.last_announced_distance = None]
    IN  IF nav1.current_step_index >= Len(nav.steps)
        THEN [navs |-> DictPop(navs, session_id), ret |-> ArrivedUpdate(nav.steps)]
        ELSE LET next_step == nav.steps[nav1.current_step_index + 1]
             IN  [navs |-> DictSet(navs, session_id, nav1),
                  ret  |-> [status |-> "step_completed",
                            current_step |-> nav1.current_step_index + 1,
                            total_steps |-> nav.total_steps,
                            instruction |-> next_step.instruction,
                            distance_to_next |-> next_step.distance_meters,
                            should_announce |-> TRUE,
                            announcement |-> Instruction(next_step.instruction)]]

\* The step-completed branch (d < 20): the store after the update and the reply.
CompleteStep(navs, session_id, d) ==
    LET nav  == navs[session_id]
        nav1 == [nav EXCEPT !.current_step_index = @ + 1,
                            !.last_announcement = None,
                            !.last_announced_distance = None]
    IN  IF nav1.current_step_index >= Len(nav.steps)
        THEN [navs |-> DictPop(navs, session_id), ret |-> ArrivedUpdate(nav.steps)]
        ELSE LET next_step == nav.steps[nav1.current_step_index + 1]
             IN  [navs |-> DictSet(navs, session_id, nav1),
                  ret  |-> [status |-> "step_completed",
                            current_step |-> nav1.current_step_index + 1,
                            total_steps |-> nav.total_steps,
                            instruction |-> next_step.instruction,
                            distance_to_next |-> next_step.distance_meters,
                            should_announce |-> TRUE,
                            announcement |-> Instruction(next_step.instruction)]]

\* NoActiveNavigation with the session created on the way, as a
\* setdefault-style lookup would
NoActiveNavigationCreating(navs, session_id) ==
    [navs |-> DictSet(navs, session_id,
                      [destination |-> None, steps |-> << >>, current_step_index |-> 0,
                       total_steps |-> 0, status |-> "active", last_announcement |-> None,
                       last_announced_distance |-> None]),
     ret  |-> [status |-> "error", message |-> "No active navigation for this session"]]

\* The branch of a session_id that is not in active_navigations
NoActiveNavigation(navs, session_id) ==
    [navs |-> navs,
     ret  |-> [status |-> "error", message |-> "No active navigation for this session"]]

\* update_location(session_id, lat, lng), with d the distance from (lat, lng)
\* to the end of the current step.
update_location(navs, session_id, d) ==
    IF session_id \notin DOMAIN navs
    THEN NoActiveNavigation(navs, session_id)
    ELSE LET nav == navs[session_id]
             idx == nav.current_step_index
         IN  IF idx >= Len(nav.steps)
             THEN [navs |-> DictPop(navs, session_id), ret |-> ArrivedUpdate(nav.steps)]
             ELSE IF d < 20
             THEN CompleteStep(navs, session_id, d)
             ELSE LET p == Proximity(nav, idx, d)
                  IN  [navs |-> DictSet(navs, session_id, p.nav), ret |-> p.ret]

----------------------------------------------------------------------------
(* NavigationService.stop_navigation *)

\* stop_navigation clearing the whole dict
stop_navigation_clear(navs, session_id) ==
    IF session_id \in DOMAIN navs THEN << >> ELSE navs

stop_navigation(navs, session_id) ==
    IF session_id \in DOMAIN navs THEN DictPop(navs, session_id) ELSE navs

----------------------------------------------------------------------------
(* NavigationService.start_navigation after get_directions returned *)

\* NewNavigation with a 1-based step index
NewNavigationOneBased(directions) ==
    [destination |-> directions.destination,
     steps |-> directions.steps,
     current_step_index |-> 1,
     total_steps |-> Len(directions.steps),
     status |-> "active",
     last_announcement |-> None,
     last_announced_distance |-> None]

NewNavigation(directions) ==
    [destination |-> directions.destination,
     steps |-> directions.steps,
     current_step_index |-> 0,
     total_steps |-> Len(directions.steps),
     status |-> "active",
     last_announcement |-> None,
     last_announced_distance |-> None]

\* start_navigation storing the session before it asks for directions
start_navigation_store_first(navs, session_id, result) ==
    IF result.ok
    THEN DictSet(navs, session_id, NewNavigation(result.directions))
    ELSE DictSet(navs, session_id,
                 [destination |-> None, steps |-> << >>, current_step_index |-> 0,
                  total_steps |-> 0, status |-> "active", last_announcement |-> None,
                  last_announced_distance |-> None])

\* start_navigation(session_id, ...) once get_directions has returned
\* directions (result.ok) or raised (the exception leaves the method).
start_navigation(navs, session_id, result) ==
    IF result.ok
    THEN DictSet(navs, session_id, NewNavigation(result.directions))
    ELSE navs

----------------------------------------------------------------------------
(* NavigationService._find_nearest_place: the place found, or None.        *)
(* nearby and text are the provider's answers to places_nearby and to the  *)
(* text search: "results", "empty" or "error" (the call raised).           *)

_find_nearest_place(client, place_name, nearby, text) ==
    IF ~client THEN None
    ELSE IF nearby = "error" THEN None
    ELSE IF nearby = "results" THEN "nearest " \o place_name
    ELSE IF text = "results" THEN "nearest " \o place_name
    ELSE None

PlacesAnswers == {"results", "empty", "error"}

\* Answers of the directions provider: a route whose first leg has n steps
\* (a leg has at least one), no route, an ApiError, or another exception of
\* the client (transport, timeout).
DirectionsAnswers ==
    {[kind |-> "route", n |-> n] : n \in 1..MaxSteps}
        \cup {[kind |-> "empty"], [kind |-> "ApiError"], [kind |-> "TransportError"]}

\* get_directions from the directions call on: the route, or the exception
directions_result(answer) ==
    IF answer.kind = "ApiError" THEN [ok |-> FALSE, detail |-> "Google Maps API error"]
    ELSE IF answer.kind = "TransportError" THEN [ok |-> FALSE, detail |-> "TransportError"]
    ELSE IF answer.kind = "empty" THEN [ok |-> FALSE, detail |-> "No walking route found"]
    ELSE [ok |-> TRUE, directions |-> DirectionsResponse(answer.n)]

\* after_find_nearest_place without the second search
after_find_nearest_place_no_retry(frame, radius, nearest_place) ==
    IF nearest_place # None
    THEN [pc |-> "directions", final_destination |-> nearest_place, frame |-> frame]
    ELSE [pc |-> "raise", detail |-> "Could not find any place near your location"]

\* get_directions after a call of _find_nearest_place at radius returned
\* nearest_place: the next provider call, or the exception.
after_find_nearest_place(frame, radius, nearest_place) ==
    IF nearest_place = None /\ radius = 5000
    THEN [pc |-> "find_nearest_place", radius |-> 10000, frame |-> frame]
    ELSE IF nearest_place # None
    THEN [pc |-> "directions", final_destination |-> nearest_place, frame |-> frame]
    ELSE [pc |-> "raise", detail |-> "Could not find any place near your location"]

----------------------------------------------------------------------------
(* Replies *)

HttpError(code, detail) == [status |-> "error", code |-> code, detail |-> detail]

WsError(message) == [status |-> "error", message |-> message]

Pending == [status |-> "pending"]

Idle == [pc |-> "idle"]

\* Messages of the main loop of the navigation stream
LocationMessages ==
    {[kind |-> "location", d |-> d] : d \in Distances}
        \cup {[kind |-> "missing"], [kind |-> "malformed"]}

Closed == [state |-> "closed", session_id |-> None]

----------------------------------------------------------------------------
(* What the listener of one session has heard on the current step *)

Listeners == DOMAIN heard

\* The tier an update announced, None when it announced none.
TierFired(navs2, session_id, ret) ==
    IF ret.status = "navigating" /\ ret.should_announce
    THEN navs2[session_id].last_announcement
    ELSE None

SameStep(navs, navs2, session_id) ==
    /\ session_id \in DOMAIN navs
    /\ session_id \in DOMAIN navs2
    /\ navs2[session_id].current_step_index = navs[session_id].current_step_index

\* After update_location(session_id, d) answered ret and left the store navs2
HeardAfterUpdate(navs2, session_id, d, ret) ==
    /\ heard' = [l \in Listeners |->
                    IF l # session_id THEN heard[l]
                    ELSE IF ~SameStep(active_navigations, navs2, l) THEN {}
                    ELSE heard[l] \cup ({TierFired(navs2, l, ret)} \ {None})]
    /\ announced_at' = [l \in Listeners |->
                    IF l # session_id THEN announced_at[l]
                    ELSE IF ~SameStep(active_navigations, navs2, l) THEN {}
                    ELSE IF TierFired(navs2, l, ret) # None THEN {d}
                    ELSE announced_at[l] \cap {d}]

\* After a handler started, replaced or removed the sessions in ended
HeardAfterEnd(ended) ==
    /\ heard' = [l \in Listeners |-> IF l \in ended THEN {} ELSE heard[l]]
    /\ announced_at' = [l \in Listeners |-> IF l \in ended THEN {} ELSE announced_at[l]]

----------------------------------------------------------------------------
(* POST /navigation/start: navigation_routes.start_navigation, with        *)
(* NavigationService.start_navigation and get_directions inlined           *)

\* The location made of the origin_lat and origin_lng of a start request
RequestOrigin == [latitude |-> "origin_lat", longitude |-> "origin_lng"]

\* StartRequest going on without a location
StartRequestWithoutLocation(session_id, destination, has_origin) ==
    /\ inflight = Idle
    /\ req' = [op |-> "start", session_id |-> session_id]
    /\ UNCHANGED <<loc_ws, inbox, served>>
    /\ UNCHANGED <<gmaps, TRANSIT_API_KEY, active_navigations, user_locations, nav_ws, heard, announced_at>>
    /\ IF session_id = None \/ destination = None
       THEN /\ resp' = HttpError(400, "Missing session_id or destination")
            /\ inflight' = Idle
       ELSE IF ~gmaps
       THEN /\ resp' = HttpError(500, "Google Maps API key not configured")
            /\ inflight' = Idle
       ELSE LET location == IF session_id \in DOMAIN user_locations
                            THEN user_locations[session_id] ELSE RequestOrigin
                cleaned_destination == cleaned_destination_of[destination]
                frame == [session_id |-> session_id, destination |-> destination,
                          origin |-> location, cleaned_destination |-> cleaned_destination]
            IN  /\ resp' = Pending
                /\ inflight' =
                     IF is_generic_of[destination]
                     THEN [pc |-> "find_nearest_place", radius |-> 5000, frame |-> frame]
                     ELSE [pc |-> "directions", final_destination |-> cleaned_destination,
                           frame |-> frame]

\* StartRequest taking the origin of the request before the stored location
StartRequestOriginFirst(session_id, destination, has_origin) ==
    /\ inflight = Idle
    /\ req' = [op |-> "start", session_id |-> session_id]
    /\ UNCHANGED <<loc_ws, inbox, served>>
    /\ UNCHANGED <<gmaps, TRANSIT_API_KEY, active_navigations, user_locations, nav_ws, heard, announced_at>>
    /\ IF session_id = None \/ destination = None
       THEN /\ resp' = HttpError(400, "Missing session_id or destination")
            /\ inflight' = Idle
       ELSE IF session_id \notin DOMAIN user_locations /\ ~has_origin
       THEN /\ resp' = HttpError(400, "Location not found")
            /\ inflight' = Idle
       ELSE IF ~gmaps
       THEN /\ resp' = HttpError(500, "Google Maps API key not configured")
            /\ inflight' = Idle
       ELSE LET location == IF has_origin
                            THEN RequestOrigin ELSE user_locations[session_id]
                cleaned_destination == cleaned_destination_of[destination]
                frame == [session_id |-> session_id, destination |-> destination,
                          origin |-> location, cleaned_destination |-> cleaned_destination]
            IN  /\ resp' = Pending
                /\ inflight' =
                     IF is_generic_of[destination]
                     THEN [pc |-> "find_nearest_place", radius |-> 5000, frame |-> frame]
                     ELSE [pc |-> "directions", final_destination |-> cleaned_destination,
                           frame |-> frame]

\* From the request to the first provider call, or to the reply.
StartRequest(session_id, destination, has_origin) ==
    /\ inflight = Idle
    /\ req' = [op |-> "start", session_id |-> session_id]
    /\ UNCHANGED <<loc_ws, inbox, served>>
    /\ UNCHANGED <<gmaps, TRANSIT_API_KEY, active_navigations, user_locations, nav_ws, heard, announced_at>>
    /\ IF session_id = None \/ destination = None
       THEN /\ resp' = HttpError(400, "Missing session_id or destination")
            /\ inflight' = Idle
       ELSE IF session_id \notin DOMAIN user_locations /\ ~has_origin
       THEN /\ resp' = HttpError(400, "Location not found")
            /\ inflight' = Idle
       ELSE IF ~gmaps
       THEN /\ resp' = HttpError(500, "Google Maps API key not configured")
            /\ inflight' = Idle
       ELSE LET location == IF session_id \in DOMAIN user_locations
                            THEN user_locations[session_id] ELSE RequestOrigin
                cleaned_destination == cleaned_destination_of[destination]
                frame == [session_id |-> session_id, destination |-> destination,
                          origin |-> location, cleaned_destination |-> cleaned_destination]
            IN  /\ resp' = Pending
                /\ inflight' =
                     IF is_generic_of[destination]
                     THEN [pc |-> "find_nearest_place", radius |-> 5000, frame |-> frame]
                     ELSE [pc |-> "directions", final_destination |-> cleaned_destination,
                           frame |-> frame]

\* One call of _find_nearest_place returns into get_directions.
FindNearestPlace(nearby, text) ==
    /\ inflight.pc = "find_nearest_place"
    /\ UNCHANGED <<loc_ws, inbox, served>>
    /\ UNCHANGED <<gmaps, TRANSIT_API_KEY, active_navigations, user_locations, nav_ws, req, heard, announced_at>>
    /\ LET nearest_place == _find_nearest_place(gmaps, inflight.frame.cleaned_destination,
                                                nearby, text)
           next == after_find_nearest_place(inflight.frame, inflight.radius, nearest_place)
       IN  IF next.pc = "raise"
           THEN /\ inflight' = Idle
                /\ resp' = HttpError(500, next.detail)
           ELSE /\ inflight' = next
                /\ resp' = Pending

\* gmaps.directions returns into get_directions, which returns into
\* start_navigation, which stores the session.
Directions(answer) ==
    /\ inflight.pc = "directions"
    /\ inflight' = Idle
    /\ UNCHANGED <<loc_ws, inbox, served>>
    /\ UNCHANGED <<gmaps, TRANSIT_API_KEY, user_locations, nav_ws, req>>
    /\ LET result == directions_result(answer)
       IN  /\ active_navigations' =
                 start_navigation(active_navigations, inflight.frame.session_id, result)
           /\ resp' = IF result.ok
                      THEN [status |-> "success", directions |-> result.directions]
                      ELSE HttpError(500, result.detail)
           /\ HeardAfterEnd(IF result.ok THEN {inflight.frame.session_id} ELSE {})

----------------------------------------------------------------------------
(* POST /navigation/stop: navigation_routes.stop_navigation *)

StopRequest(session_id) ==
    /\ inflight = Idle
    /\ req' = [op |-> "stop", session_id |-> session_id]
    /\ UNCHANGED <<loc_ws, inbox, served>>
    /\ UNCHANGED <<gmaps, TRANSIT_API_KEY, user_locations, nav_ws, inflight>>
    /\ IF session_id = None
       THEN /\ resp' = HttpError(400, "Missing session_id")
            /\ UNCHANGED <<active_navigations, heard, announced_at>>
       ELSE /\ active_navigations' = stop_navigation(active_navigations, session_id)
            /\ resp' = [status |-> "success", message |-> "Navigation stopped"]
            /\ HeardAfterEnd({session_id})

----------------------------------------------------------------------------
(* WebSocket /navigation/ws: navigation_routes.websocket_navigation *)

\* The except clauses without the call of stop_navigation
StopOnCloseLeaking(session_id) ==
    UNCHANGED <<active_navigations, heard, announced_at>>

\* The except clauses: stop the stream's session, if it has one.
StopOnClose(session_id) ==
    IF session_id # None
    THEN /\ active_navigations' = stop_navigation(active_navigations, session_id)
         /\ HeardAfterEnd({session_id})
    ELSE UNCHANGED <<active_navigations, heard, announced_at>>

\* A new connection: nothing sent, nothing waiting
EmptyInbox == [sent |-> 0, frames |-> << >>]

\* websocket.accept()
NavWsAccept(c) ==
    /\ inflight = Idle
    /\ nav_ws[c].state = "closed"
    /\ nav_ws' = [nav_ws EXCEPT ![c] = [state |-> "accepted", session_id |-> None]]
    /\ req' = [op |-> "ws_accept", conn |-> c]
    /\ resp' = [status |-> "accepted"]
    /\ inbox' = [x \in DOMAIN inbox |-> IF x = c THEN EmptyInbox ELSE inbox[x]]
    /\ served' = [x \in DOMAIN served |-> IF x = c THEN << >> ELSE served[x]]
    /\ UNCHANGED <<loc_ws, gmaps, TRANSIT_API_KEY, active_navigations, user_locations, inflight, heard, announced_at>>

\* The first message: msg is "malformed" (json.loads raises) or the value of
\* its session_id key, None when the key is missing.
NavWsInit(c, msg) ==
    /\ inflight = Idle
    /\ nav_ws[c].state = "accepted"
    /\ req' = [op |-> "ws_init", conn |-> c, first |-> msg]
    /\ UNCHANGED <<loc_ws, inbox, served>>
    /\ UNCHANGED <<gmaps, TRANSIT_API_KEY, user_locations, inflight>>
    /\ IF msg = "malformed"
       THEN /\ resp' = WsError("exception")
            /\ nav_ws' = [nav_ws EXCEPT ![c] = Closed]
            /\ StopOnClose(None)
       ELSE IF msg = None
       THEN /\ resp' = WsError("session_id required in first message")
            /\ nav_ws' = [nav_ws EXCEPT ![c] = Closed]
            /\ UNCHANGED <<active_navigations, heard, announced_at>>
       ELSE IF msg \notin DOMAIN active_navigations
       THEN /\ resp' = WsError("No active navigation for session")
            /\ nav_ws' = [nav_ws EXCEPT ![c] = Closed]
            /\ UNCHANGED <<active_navigations, heard, announced_at>>
       ELSE IF Len(active_navigations[msg].steps) = 0
       THEN \* nav["steps"][0] raises IndexError
            /\ resp' = WsError("exception")
            /\ nav_ws' = [nav_ws EXCEPT ![c] = Closed]
            /\ StopOnClose(msg)
       ELSE LET nav == active_navigations[msg]
            IN  /\ resp' = [status |-> "navigation_started", current_step |-> 1,
                            total_steps |-> nav.total_steps,
                            instruction |-> nav.steps[1].instruction,
                            distance_to_next |-> nav.steps[1].distance_meters,
                            should_announce |-> TRUE,
                            announcement |-> [text |-> "Starting navigation. {instruction}",
                                              instruction |-> nav.steps[1].instruction]]
                /\ nav_ws' = [nav_ws EXCEPT ![c] = [state |-> "open", session_id |-> msg]]
                /\ UNCHANGED <<active_navigations, heard, announced_at>>

\* A message of the main loop: malformed (json.loads raises), missing
\* latitude or longitude, or a location, given by the distance d from the
\* position it reports to the end of the session's current step.
NavWsLocation(c, msg) ==
    /\ inflight = Idle
    /\ nav_ws[c].state = "open"
    /\ req' = [op |-> "ws_location", conn |-> c, session_id |-> nav_ws[c].session_id,
               msg |-> msg]
    /\ UNCHANGED <<loc_ws, gmaps, TRANSIT_API_KEY, user_locations, inflight>>
    /\ IF msg.kind = "malformed"
       THEN /\ resp' = WsError("exception")
            /\ nav_ws' = [nav_ws EXCEPT ![c] = Closed]
            /\ StopOnClose(nav_ws[c].session_id)
       ELSE IF msg.kind = "missing"
       THEN /\ resp' = WsError("Missing latitude or longitude")
            /\ UNCHANGED <<active_navigations, nav_ws, heard, announced_at>>
       ELSE LET r == update_location(active_navigations, nav_ws[c].session_id, msg.d)
            IN  /\ active_navigations' = r.navs
                /\ resp' = r.ret
                /\ nav_ws' = IF r.ret.status = "arrived"
                             THEN [nav_ws EXCEPT ![c] = Closed]
                             ELSE nav_ws
                /\ HeardAfterUpdate(r.navs, nav_ws[c].session_id, msg.d, r.ret)

\* The client closes the stream: receive_text raises WebSocketDisconnect.
NavWsDisconnect(c) ==
    /\ inflight = Idle
    /\ nav_ws[c].state \in {"accepted", "open"}
    /\ req' = [op |-> "ws_disconnect", conn |-> c, session_id |-> nav_ws[c].session_id]
    /\ resp' = [status |-> "disconnected"]
    /\ nav_ws' = [nav_ws EXCEPT ![c] = Closed]
    /\ StopOnClose(nav_ws[c].session_id)
    /\ UNCHANGED <<loc_ws, inbox, served>>
    /\ UNCHANGED <<gmaps, TRANSIT_API_KEY, user_locations, inflight>>

----------------------------------------------------------------------------
(* WebSocket /location/ws: location_routes.websocket_location_tracker *)

\* Messages of the location stream: a JSON object with some of its keys
\* missing (None), or text that json.loads rejects
LocationFrames ==
    {[kind |-> "json", session_id |-> s, latitude |-> lat, longitude |-> lng,
      timestamp |-> "1234567890"] :
        s \in SessionIds \cup {None}, lat \in Latitudes \cup {None},
        lng \in Longitudes \cup {None}}
      \cup {[kind |-> "malformed"]}

\* The stored location of a message
StoredLocation(msg) ==
    [latitude |-> msg.latitude, longitude |-> msg.longitude, timestamp |-> msg.timestamp]

\* The store keeping the location a session already has
store_location_first_wins(locs, msg) ==
    IF msg.session_id \in DOMAIN locs THEN locs
    ELSE DictSet(locs, msg.session_id, StoredLocation(msg))

\* user_locations[session_id] = {...}
store_location(locs, msg) == DictSet(locs, msg.session_id, StoredLocation(msg))

\* The except clauses: user_locations.pop(session_id, None) if session_id
PopOnClose(session_id) ==
    IF session_id # None THEN DictPop(user_locations, session_id) ELSE user_locations

\* websocket.accept()
LocWsAccept(c) ==
    /\ inflight = Idle
    /\ loc_ws[c].state = "closed"
    /\ loc_ws' = [loc_ws EXCEPT ![c] = [state |-> "open", session_id |-> None]]
    /\ req' = [op |-> "loc_accept", conn |-> c]
    /\ resp' = [status |-> "accepted"]
    /\ UNCHANGED <<gmaps, TRANSIT_API_KEY, active_navigations, user_locations, nav_ws, inflight,
                   heard, announced_at, inbox, served>>

\* One round of the loop: a message is received and answered.
LocWsMessage(c, msg) ==
    /\ inflight = Idle
    /\ loc_ws[c].state = "open"
    /\ req' = [op |-> "loc_message", conn |-> c, msg |-> msg]
    /\ UNCHANGED <<gmaps, TRANSIT_API_KEY, active_navigations, nav_ws, inflight, heard, announced_at,
                   inbox, served>>
    /\ IF msg.kind = "malformed"
       THEN \* json.loads raises: except Exception
            /\ resp' = [status |-> "closed"]
            /\ user_locations' = PopOnClose(loc_ws[c].session_id)
            /\ loc_ws' = [loc_ws EXCEPT ![c] = Closed]
       ELSE /\ loc_ws' = [loc_ws EXCEPT ![c].session_id = msg.session_id]
            /\ IF msg.session_id # None /\ msg.latitude # None /\ msg.longitude # None
               THEN /\ user_locations' = store_location(user_locations, msg)
                    /\ resp' = [status |-> "received", session_id |-> msg.session_id]
               ELSE /\ user_locations' = user_locations
                    /\ resp' = WsError("Missing session_id or coordinates")

\* The client closes the stream: receive_text raises WebSocketDisconnect.
LocWsDisconnect(c) ==
    /\ inflight = Idle
    /\ loc_ws[c].state = "open"
    /\ req' = [op |-> "loc_disconnect", conn |-> c, session_id |-> loc_ws[c].session_id]
    /\ resp' = [status |-> "disconnected"]
    /\ user_locations' = PopOnClose(loc_ws[c].session_id)
    /\ loc_ws' = [loc_ws EXCEPT ![c] = Closed]
    /\ UNCHANGED <<gmaps, TRANSIT_API_KEY, active_navigations, nav_ws, inflight, heard, announced_at,
                   inbox, served>>

----------------------------------------------------------------------------
(* The TransitApp helpers of NavigationService.  A provider answer is the  *)
(* exception requests.get raised, or the HTTP status with the JSON body.   *)

\* "num_result" of the plan request: the most itineraries the provider returns
num_result == 3

Modes == {"all", "bus", "train"}

\* Stops of a nearby_stops answer, nearest first: a bus stop (route_type 3)
\* and a rail stop (route_type 1)
TransitStops ==
    {[stop_name |-> "Broad St & Main St", route_type |-> 3],
     [stop_name |-> "City Hall Station", route_type |-> 1]}

StopLists == {<< >>} \cup {<<a>> : a \in TransitStops} \cup {<<a, b>> : a, b \in TransitStops}

NearbyStopsAnswers ==
    {[kind |-> "exception"], [kind |-> "http", status_code |-> 500, stops |-> << >>]}
        \cup {[kind |-> "http", status_code |-> 200, stops |-> l] : l \in StopLists}

\* filter of a list
RECURSIVE SelectStops(_, _)
SelectStops(stops, route_types) ==
    IF stops = << >> THEN << >>
    ELSE IF Head(stops).route_type \in route_types
         THEN <<Head(stops)>> \o SelectStops(Tail(stops), route_types)
         ELSE SelectStops(Tail(stops), route_types)

\* None where a stop is expected
NoStop == [stop_name |-> None]

\* _transit_get_nearest_stop without the filter by route_type
_transit_get_nearest_stop_unfiltered(key, answer, transport_mode) ==
    IF ~key THEN NoStop
    ELSE IF answer.kind = "exception" THEN NoStop
    ELSE IF answer.status_code # 200 THEN NoStop
    ELSE IF answer.stops = << >> THEN NoStop
    ELSE answer.stops[1]

\* _transit_get_nearest_stop: the stop, or None
_transit_get_nearest_stop(key, answer, transport_mode) ==
    IF ~key THEN NoStop
    ELSE IF answer.kind = "exception" THEN NoStop
    ELSE IF answer.status_code # 200 THEN NoStop
    ELSE IF answer.stops = << >> THEN NoStop
    ELSE LET filtered == IF transport_mode = "bus" THEN SelectStops(answer.stops, {3})
                         ELSE IF transport_mode = "train" THEN SelectStops(answer.stops, {0, 1, 2})
                         ELSE answer.stops
             stops == IF filtered # << >> THEN filtered ELSE answer.stops
         IN  stops[1]

\* Legs of a plan answer
WalkLeg == [leg_mode |-> "walk", distance |-> 400, duration |-> 300]

TransitLeg(rid) ==
    [leg_mode |-> "transit", duration |-> 900, global_route_id |-> rid,
     mode_name |-> "Bus", route_short_name |-> rid]

\* Itineraries of a plan answer: on foot only, or a walk to a ride
Itineraries ==
    {[duration |-> 300, legs |-> <<WalkLeg>>]}
        \cup {[duration |-> 1200, legs |-> <<WalkLeg, TransitLeg(rid)>>] : rid \in {"r1", "r2"}}

ItineraryLists ==
    UNION {[1..k -> Itineraries] : k \in 0..num_result}

PlanAnswers ==
    {[kind |-> "exception"], [kind |-> "http", status_code |-> 500, results |-> << >>]}
        \cup {[kind |-> "http", status_code |-> 200, results |-> l] : l \in ItineraryLists}

\* None where the JSON body of the plan answer is expected
NoTripData == [json |-> None]

\* _transit_plan_trip: the JSON body, None, or the exception
_transit_plan_trip(key, answer) ==
    IF ~key THEN [raised |-> TRUE, detail |-> "TRANSIT_API_KEY is missing", trip_data |-> NoTripData]
    ELSE IF answer.kind = "exception" THEN [raised |-> FALSE, trip_data |-> NoTripData]
    ELSE IF answer.status_code # 0 THEN [raised |-> FALSE, trip_data |-> NoTripData]
    ELSE [raised |-> FALSE, trip_data |-> [results |-> answer.results]]

\* The route ids get_transit_routes collects for the alerts
RouteIdsOf(results) ==
    UNION {{results[i].legs[j].global_route_id :
               j \in {k \in 1..Len(results[i].legs) : results[i].legs[k].leg_mode = "transit"}} :
           i \in 1..Len(results)}

\* One leg as get_transit_routes returns it
NormalizedLeg(leg) ==
    IF leg.leg_mode = "walk"
    THEN [type |-> "walk", distance_m |-> leg.distance, duration_min |-> leg.duration \div 60]
    ELSE [type |-> "transit", mode_name |-> leg.mode_name,
          route_short_name |-> leg.route_short_name, duration_min |-> leg.duration \div 60]

\* normalized_options
NormalizedOptions(results) ==
    [i \in 1..Len(results) |->
        [duration_min |-> results[i].duration \div 60,
         legs |-> [j \in 1..Len(results[i].legs) |-> NormalizedLeg(results[i].legs[j])]]]

\* Routes of a nearby_routes answer: a route with one schedule item, which is
\* cancelled, or live and late by so many seconds
ScheduleItems ==
    {[is_cancelled |-> TRUE, late |-> 0]}
        \cup {[is_cancelled |-> FALSE, late |-> l] : l \in {0, 60, 180}}

NearbyRoutes ==
    {[global_route_id |-> rid, item |-> it] : rid \in {"r1", "r2"}, it \in ScheduleItems}

NearbyRoutesAnswers ==
    {[kind |-> "exception"], [kind |-> "http", status_code |-> 500, routes |-> << >>],
     [kind |-> "http", status_code |-> 200, routes |-> << >>]}
        \cup {[kind |-> "http", status_code |-> 200, routes |-> <<r>>] : r \in NearbyRoutes}

RouteIdSets == SUBSET {"r1", "r2"}

\* The alerts of one route of the answer
AlertsOfRoute(route, route_ids) ==
    IF route.global_route_id \notin route_ids THEN << >>
    ELSE IF route.item.is_cancelled
         THEN <<[type |-> "CANCELLED", route |-> route.global_route_id]>>
    ELSE IF route.item.late > 0 /\ route.item.late \div 60 >= 2
         THEN <<[type |-> "DELAY", route |-> route.global_route_id,
                 delay_minutes |-> route.item.late \div 60]>>
    ELSE << >>

\* _transit_get_service_alerts: the list of alerts; it raises nothing
_transit_get_service_alerts(key, route_ids, answer) ==
    IF ~key \/ route_ids = {} THEN << >>
    ELSE IF answer.kind = "exception" THEN << >>
    ELSE IF answer.status_code # 200 THEN << >>
    ELSE IF answer.routes = << >> THEN << >>
    ELSE AlertsOfRoute(answer.routes[1], route_ids)

----------------------------------------------------------------------------
(* POST /navigation/transit-routes: navigation_routes.get_transit_routes,  *)
(* with NavigationService.get_transit_routes inlined.  The handler holds   *)
(* the event loop across its provider calls, as the start handler does.    *)

\* From the request to the first provider call, or to the reply.
TransitRequest(destination, mode) ==
    /\ inflight = Idle
    /\ req' = [op |-> "transit", destination |-> destination, mode |-> mode]
    /\ UNCHANGED <<gmaps, TRANSIT_API_KEY, active_navigations, user_locations, nav_ws, loc_ws,
                   heard, announced_at, inbox, served>>
    /\ IF ~TRANSIT_API_KEY
       THEN /\ resp' = HttpError(400, "Transit API key not configured")
            /\ inflight' = Idle
       ELSE IF ~gmaps
       THEN /\ resp' = HttpError(400, "Google Maps API key not configured")
            /\ inflight' = Idle
       ELSE LET frame == [destination |-> destination, mode |-> mode,
                          cleaned_destination |-> cleaned_destination_of[destination]]
            IN  /\ resp' = Pending
                /\ inflight' =
                     IF is_generic_of[destination]
                     THEN [pc |-> "transit_find_nearest_place", radius |-> 5000, frame |-> frame]
                     ELSE [pc |-> "geocode",
                           final_destination |-> cleaned_destination_of[destination],
                           frame |-> frame]

\* One call of _find_nearest_place returns into get_transit_routes.
TransitFindNearestPlace(nearby, text) ==
    /\ inflight.pc = "transit_find_nearest_place"
    /\ UNCHANGED <<gmaps, TRANSIT_API_KEY, active_navigations, user_locations, nav_ws, loc_ws,
                   req, heard, announced_at, inbox, served>>
    /\ LET nearest_place == _find_nearest_place(gmaps, inflight.frame.cleaned_destination,
                                                nearby, text)
       IN  IF nearest_place = None /\ inflight.radius = 5000
           THEN /\ inflight' = [inflight EXCEPT !.radius = 10000]
                /\ resp' = Pending
           ELSE IF nearest_place # None
           THEN \* the place brings its coordinates: no geocoding
                /\ inflight' = [pc |-> "nearest_stop", final_destination |-> nearest_place,
                                frame |-> inflight.frame]
                /\ resp' = Pending
           ELSE /\ inflight' = Idle
                /\ resp' = HttpError(400, "Could not find any place near your location for transit routing")

GeocodeAnswers == {"results", "empty", "error"}

\* gmaps.geocode returns into get_transit_routes.
TransitGeocode(answer) ==
    /\ inflight.pc = "geocode"
    /\ UNCHANGED <<gmaps, TRANSIT_API_KEY, active_navigations, user_locations, nav_ws, loc_ws,
                   req, heard, announced_at, inbox, served>>
    /\ IF answer = "error"
       THEN /\ inflight' = Idle
            /\ resp' = HttpError(400, "geocode exception")
       ELSE IF answer = "empty"
       THEN /\ inflight' = Idle
            /\ resp' = HttpError(400, "Could not geocode destination for transit routing")
       ELSE /\ inflight' = [inflight EXCEPT !.pc = "nearest_stop"]
            /\ resp' = Pending

\* The nearby_stops request returns into _transit_get_nearest_stop.
TransitNearestStop(answer) ==
    /\ inflight.pc = "nearest_stop"
    /\ UNCHANGED <<gmaps, TRANSIT_API_KEY, active_navigations, user_locations, nav_ws, loc_ws,
                   req, heard, announced_at, inbox, served>>
    /\ LET nearest_stop == _transit_get_nearest_stop(TRANSIT_API_KEY, answer, inflight.frame.mode)
       IN  IF nearest_stop = NoStop
           THEN /\ inflight' = Idle
                /\ resp' = HttpError(400, "No nearby transit stops found near your location")
           ELSE /\ inflight' = [pc |-> "plan_trip", origin_stop |-> nearest_stop,
                                final_destination |-> inflight.final_destination,
                                frame |-> inflight.frame]
                /\ resp' = Pending

\* The plan request returns into _transit_plan_trip; with a plan, the
\* nearby_routes request follows and returns into
\* _transit_get_service_alerts, and get_transit_routes returns the trip.
TransitPlanTrip(answer, alerts_answer) ==
    /\ inflight.pc = "plan_trip"
    /\ inflight' = Idle
    /\ UNCHANGED <<gmaps, TRANSIT_API_KEY, active_navigations, user_locations, nav_ws, loc_ws,
                   req, heard, announced_at, inbox, served>>
    /\ LET r == _transit_plan_trip(TRANSIT_API_KEY, answer)
       IN  IF r.raised
           THEN resp' = HttpError(400, r.detail)
           ELSE IF r.trip_data = NoTripData
           THEN resp' = HttpError(400, "No transit routes found for this destination")
           ELSE IF r.trip_data.results = << >>
           THEN resp' = HttpError(400, "No transit routes found for this destination")
           ELSE LET results == r.trip_data.results
                IN  resp' = [status |-> "success",
                             destination |-> inflight.final_destination,
                             origin_stop |-> inflight.origin_stop,
                             options |-> NormalizedOptions(results),
                             alerts |-> _transit_get_service_alerts(
                                           TRANSIT_API_KEY, RouteIdsOf(results), alerts_answer)]

\* A call of _transit_get_service_alerts(route_ids, lat, lon) by itself
ServiceAlertsCall(route_ids, answer) ==
    /\ inflight = Idle
    /\ req' = [op |-> "_transit_get_service_alerts", route_ids |-> route_ids, answer |-> answer]
    /\ resp' = [status |-> "returned",
                alerts |-> _transit_get_service_alerts(TRANSIT_API_KEY, route_ids, answer)]
    /\ UNCHANGED <<gmaps, TRANSIT_API_KEY, active_navigations, user_locations, nav_ws, loc_ws,
                   inflight, heard, announced_at, inbox, served>>

----------------------------------------------------------------------------
(* The frames of a watched navigation stream *)

\* The frames a client sends in the main loop of a watched stream
StreamMessages ==
    {[kind |-> "location", d |-> 15], [kind |-> "location", d |-> 60], [kind |-> "malformed"]}

\* The client sends one more frame on its open stream.
ClientSend(c, msg) ==
    /\ c \in DOMAIN inbox
    /\ nav_ws[c].state = "open"
    /\ inbox[c].sent < MaxMessages
    /\ inbox' = [inbox EXCEPT ![c] =
                    [sent |-> @.sent + 1,
                     frames |-> Append(@.frames, [seq |-> @.sent + 1, msg |-> msg])]]
    /\ UNCHANGED <<loc_ws, gmaps, TRANSIT_API_KEY, active_navigations, user_locations, nav_ws, inflight, req, resp,
                   heard, announced_at, served>>

\* receive_text handing over the frame sent last
receive_text_latest(frames) ==
    [frame |-> frames[Len(frames)], rest |-> SubSeq(frames, 1, Len(frames) - 1)]

\* await websocket.receive_text(): the oldest frame waiting on the connection
receive_text(frames) == [frame |-> Head(frames), rest |-> Tail(frames)]

\* One round of the main loop on a watched stream: receive a frame, apply it,
\* send the answer.
NavWsReceive(c) ==
    /\ c \in DOMAIN inbox
    /\ inbox[c].frames # << >>
    /\ LET r == receive_text(inbox[c].frames)
       IN  /\ NavWsLocation(c, r.frame.msg)
           /\ inbox' = [inbox EXCEPT ![c].frames = r.rest]
           /\ served' = [served EXCEPT ![c] = Append(@, r.frame.seq)]

----------------------------------------------------------------------------
(* Specifications *)

InitWith(conns, listeners, watched, loc_conns, transit_keys) ==
    /\ gmaps \in BOOLEAN
    /\ TRANSIT_API_KEY \in transit_keys
    /\ active_navigations = << >>
    /\ user_locations = << >>
    /\ nav_ws = [c \in conns |-> Closed]
    /\ loc_ws = [c \in loc_conns |-> Closed]
    /\ inflight = Idle
    /\ req = [op |-> "init"]
    /\ resp = [status |-> "init"]
    /\ heard = [s \in listeners |-> {}]
    /\ announced_at = [s \in listeners |-> {}]
    /\ inbox = [c \in watched |-> EmptyInbox]
    /\ served = [c \in watched |-> << >>]

\* The server with its clients' connections
Init == InitWith(Connections, {}, {}, {}, {TRUE})

\* The server with one connection, and a listener on session s1
InitListen == InitWith({"c1"}, {"s1"}, {}, {}, {TRUE})

Next ==
    \/ \E s \in SessionIds \cup {None}, t \in Destinations \cup {None}, o \in BOOLEAN :
          StartRequest(s, t, o)
    \/ \E nearby, text \in PlacesAnswers : FindNearestPlace(nearby, text)
    \/ \E a \in DirectionsAnswers : Directions(a)
    \/ \E s \in SessionIds \cup {None} : StopRequest(s)
    \/ \E c \in DOMAIN nav_ws : NavWsAccept(c)
    \/ \E c \in DOMAIN nav_ws, m \in SessionIds \cup {None, "malformed"} : NavWsInit(c, m)
    \/ \E c \in DOMAIN nav_ws, m \in LocationMessages :
          NavWsLocation(c, m) /\ UNCHANGED <<inbox, served>>
    \/ \E c \in DOMAIN nav_ws : NavWsDisconnect(c)

Spec == Init /\ [][Next]_vars

SpecListen == InitListen /\ [][Next]_vars

\* The server with one connection whose frames are watched
InitStream == InitWith({"c1"}, {}, {"c1"}, {}, {TRUE})

\* One client: it starts navigation to an address, opens its stream, sends
\* its frames as fast as it likes, and the main loop serves them.
NextStream ==
    \/ \E s \in SessionIds : StartRequest(s, "123 Main St", TRUE)
    \/ \E a \in DirectionsAnswers : Directions(a)
    \/ \E c \in DOMAIN nav_ws : NavWsAccept(c)
    \/ \E c \in DOMAIN nav_ws, m \in SessionIds : NavWsInit(c, m)
    \/ \E c \in DOMAIN nav_ws, m \in StreamMessages : ClientSend(c, m)
    \/ \E c \in DOMAIN nav_ws : NavWsReceive(c)
    \/ \E c \in DOMAIN nav_ws : NavWsDisconnect(c)

SpecStream == InitStream /\ [][NextStream]_vars

\* The server with the connections of the location trackers
InitLocation == InitWith({}, {}, {}, LocConnections, {TRUE})

\* Clients that report their locations and start navigation to an address
NextLocation ==
    \/ \E s \in {"s1", None}, t \in {"123 Main St", None}, o \in BOOLEAN :
          StartRequest(s, t, o)
    \/ \E a \in DirectionsAnswers : Directions(a)
    \/ \E c \in DOMAIN loc_ws : LocWsAccept(c)
    \/ \E c \in DOMAIN loc_ws, m \in LocationFrames : LocWsMessage(c, m)
    \/ \E c \in DOMAIN loc_ws : LocWsDisconnect(c)

SpecLocation == InitLocation /\ [][NextLocation]_vars

\* The server with or without the TransitApp key
InitTransit == InitWith({}, {}, {}, {}, BOOLEAN)

\* Clients that ask for transit routes, and calls of the alert helper
NextTransit ==
    \/ \E t \in Destinations, m \in Modes : TransitRequest(t, m)
    \/ \E nearby, text \in PlacesAnswers : TransitFindNearestPlace(nearby, text)
    \/ \E a \in GeocodeAnswers : TransitGeocode(a)
    \/ \E a \in NearbyStopsAnswers : TransitNearestStop(a)
    \/ \E a \in PlanAnswers, b \in NearbyRoutesAnswers : TransitPlanTrip(a, b)
    \/ \E ids \in RouteIdSets, a \in NearbyRoutesAnswers : ServiceAlertsCall(ids, a)

SpecTransit == InitTransit /\ [][NextTransit]_vars

----------------------------------------------------------------------------
(* Properties *)

Sessions == DOMAIN active_navigations

\* The step is the directions call of a start request for s returning
StartReturns(s) == inflight.pc = "directions" /\ inflight.frame.session_id = s

\* The step serves a location message of a navigation stream bound to s
UpdateStep(s) ==
    /\ req'.op = "ws_location"
    /\ req'.session_id = s
    /\ req'.msg.kind = "location"

\* C1: for a session with N steps, current_step_index never decreases while
\* the session is in the store (a start for its id puts a new session in
\* its place), and it is between 0 and N.
C1_StepIndexMonotone ==
    [][ /\ \A s \in Sessions' :
             /\ active_navigations'[s].current_step_index >= 0
             /\ active_navigations'[s].current_step_index <= Len(active_navigations'[s].steps)
             /\ active_navigations'[s].total_steps = Len(active_navigations'[s].steps)
        /\ \A s \in Sessions \cap Sessions' :
             ~StartReturns(s) =>
                /\ active_navigations'[s].current_step_index
                      >= active_navigations[s].current_step_index
                /\ active_navigations'[s].steps = active_navigations[s].steps
      ]_vars

\* A session has advanced past its first step.
C1_Witness ==
    \E s \in Sessions : active_navigations[s].current_step_index >= 1

\* The tier that the step announces on session s, None when it announces none
\* or serves no location message for s
AnnouncedTier(s) ==
    IF UpdateStep(s) /\ s \in Sessions' /\ resp'.status = "navigating" /\ resp'.should_announce
    THEN active_navigations'[s].last_announcement
    ELSE None

\* C2: within one step of a session, whatever the distances of the updates,
\* each of the tiers 100m, 50m and 25m is announced at most once: no update
\* announces a tier the listener has already heard on this step.
C2_TierAtMostOncePerStep ==
    [][\A s \in Listeners : AnnouncedTier(s) \notin heard[s]]_vars

\* C3: within one step, announcements come in descending-distance order: once
\* 50m has been announced 100m is not announced, and once 25m has been
\* announced neither 100m nor 50m is.
C3_TiersDescend ==
    [][\A s \in Listeners :
          /\ AnnouncedTier(s) = "100m" => heard[s] \cap {"50m", "25m"} = {}
          /\ AnnouncedTier(s) = "50m" => "25m" \notin heard[s]
      ]_vars

\* The announcement windows: 90 to 110 m, 40 to 60 m, 20 to 30 m
InWindow(d) == (90 <= d /\ d <= 110) \/ (40 <= d /\ d <= 60) \/ (20 <= d /\ d <= 30)

\* C4: for a distance d inside a window, once an update at d has announced
\* the tier, every further consecutive update at the same d on the same step
\* answers should_announce = false.
C4_NoRepeatAtConstantDistance ==
    [][\A s \in Listeners :
          (/\ UpdateStep(s)
           /\ InWindow(req'.msg.d)
           /\ announced_at[s] = {req'.msg.d}
           /\ s \in Sessions')
          => (resp'.status = "navigating" => ~resp'.should_announce)
      ]_vars

NoActiveSession == [status |-> "error", message |-> "No active navigation for this session"]

\* The session s is on its final step
OnFinalStep(s) ==
    /\ s \in Sessions
    /\ active_navigations[s].current_step_index + 1 = Len(active_navigations[s].steps)

\* C5: an update with d < 20 m on the final step answers "arrived" and removes
\* the session; from then on, until a start for that id returns, the id stays
\* out of the store and every update for it answers the NoActiveSession error.
C5_ArrivalRemovesSession ==
    [][\A s \in SessionIds :
          /\ (UpdateStep(s) /\ OnFinalStep(s) /\ req'.msg.d < 20)
                => (resp'.status = "arrived" /\ s \notin Sessions')
          /\ (UpdateStep(s) /\ s \notin Sessions)
                => (resp' = NoActiveSession /\ s \notin Sessions')
          /\ (s \notin Sessions /\ s \in Sessions') => StartReturns(s)
      ]_vars

\* An update has just arrived and its session is gone.
C5_Witness ==
    /\ req.op = "ws_location"
    /\ resp.status = "arrived"
    /\ req.session_id \notin Sessions

\* The step serves a stop request for s
StopStep(s) == req'.op = "stop" /\ req'.session_id = s

\* C6: stop(s) removes the session s if it is present and changes nothing if
\* it is absent, other sessions stay as they are, a second stop changes
\* nothing more, and the endpoint answers success in both cases.
C6_StopIdempotent ==
    [][\A s \in SessionIds :
          StopStep(s) =>
             /\ Sessions' = Sessions \ {s}
             /\ \A x \in Sessions' : active_navigations'[x] = active_navigations[x]
             /\ stop_navigation(active_navigations', s) = active_navigations'
             /\ resp'.status = "success"
      ]_vars

\* A stop has been answered while another session is in the store.
C6_Witness ==
    /\ req.op = "stop"
    /\ resp.status = "success"
    /\ Sessions # {}

\* C7: an update for a session id that is not in the store answers the
\* NoActiveSession error and leaves the store as it was.
C7_UnknownSessionUpdate ==
    [][\A s \in SessionIds :
          (UpdateStep(s) /\ s \notin Sessions)
             => (resp' = NoActiveSession /\ active_navigations' = active_navigations)
      ]_vars

\* An update has been answered with the NoActiveSession error.
C7_Witness ==
    /\ req.op = "ws_location"
    /\ req.msg.kind = "location"
    /\ resp = NoActiveSession

\* A fully initialised session record
Initialised(nav) ==
    /\ DOMAIN nav = {"destination", "steps", "current_step_index", "total_steps",
                     "status", "last_announcement", "last_announced_distance"}
    /\ nav.status = "active"
    /\ nav.total_steps = Len(nav.steps)
    /\ nav.current_step_index \in 0..Len(nav.steps)

\* C8: a successful start for s leaves under s the session of the returned
\* route with current_step_index 0, status active and no tier announced, in
\* place of any prior one; while the start is resolving and asking for the
\* route the store does not change, a session enters the store only when the
\* start returns, and every session in the store is fully initialised.
C8_StartStoresWholeSession ==
    [][ /\ \A s \in SessionIds :
             (StartReturns(s) /\ resp'.status = "success") =>
                /\ s \in Sessions'
                /\ active_navigations'[s].current_step_index = 0
                /\ active_navigations'[s].status = "active"
                /\ active_navigations'[s].last_announcement = None
                /\ active_navigations'[s].steps = resp'.directions.steps
                /\ active_navigations'[s].destination = resp'.directions.destination
                /\ \A x \in Sessions \ {s} :
                      x \in Sessions' /\ active_navigations'[x] = active_navigations[x]
        /\ inflight' # Idle => active_navigations' = active_navigations
        /\ \A s \in Sessions' \ Sessions : StartReturns(s) /\ resp'.status = "success"
        /\ \A s \in Sessions' : Initialised(active_navigations'[s])
      ]_vars

\* A start has succeeded and its session is in the store.
C8_Witness ==
    /\ req.op = "start"
    /\ resp.status = "success"
    /\ req.session_id \in Sessions
    /\ active_navigations[req.session_id].steps = resp.directions.steps

\* C9 as stated: every handler that answers an error leaves the store as it was.
C9_ErrorsLeaveStoreUnchanged ==
    [][resp'.status = "error" => active_navigations' = active_navigations]_vars

\* The session of the stream whose handler raised
RaisingStreamSession == IF req'.op = "ws_init" THEN req'.first ELSE req'.session_id

\* C9, amended: a handler that answers a typed error (missing input,
\* destination not found, no route, provider error, unknown session id,
\* missing coordinates) leaves the store as it was; a stream message on which
\* the handler raises (one that is not valid JSON) ends the stream and
\* removes the stream's own session, and no other.
C9_TypedErrorsLeaveStoreUnchanged ==
    [][resp'.status = "error" =>
          IF resp' = WsError("exception")
          THEN active_navigations' = stop_navigation(active_navigations, RaisingStreamSession)
          ELSE active_navigations' = active_navigations
      ]_vars

\* A start has failed while a session for its id is in the store.
C9_Witness ==
    /\ req.op = "start"
    /\ resp.status = "error"
    /\ req.session_id \in Sessions

DestinationNotFound == HttpError(500, "Could not find any place near your location")

\* The answers of places_nearby and of the text search hold no place
NothingFound(nearby, text) ==
    ~(nearby = "results" \/ (nearby = "empty" /\ text = "results"))

\* C10: for a generic query the resolver first searches with radius 5 km; it
\* searches once more, with radius 10 km, exactly when the first search found
\* nothing; when the second finds nothing either the request fails with
\* DestinationNotFound without a directions call.
C10_RadiusEscalation ==
    [][ /\ (inflight = Idle /\ inflight' # Idle /\ is_generic_of[inflight'.frame.destination])
              => (inflight'.pc = "find_nearest_place" /\ inflight'.radius = 5000)
        /\ \A nearby, text \in PlacesAnswers :
              (FindNearestPlace(nearby, text) /\ inflight.radius = 5000) =>
                 IF NothingFound(nearby, text)
                 THEN inflight' = [inflight EXCEPT !.radius = 10000]
                 ELSE inflight'.pc = "directions"
        /\ \A nearby, text \in PlacesAnswers :
              (FindNearestPlace(nearby, text) /\ inflight.radius = 10000) =>
                 IF NothingFound(nearby, text)
                 THEN inflight' = Idle /\ resp' = DestinationNotFound
                 ELSE inflight'.pc = "directions"
        /\ (inflight'.pc = "find_nearest_place" /\ inflight'.radius = 10000)
              => (inflight.pc = "find_nearest_place" /\ inflight.radius = 5000)
        /\ resp' = DestinationNotFound
              => (inflight.pc = "find_nearest_place" /\ inflight.radius = 10000
                  /\ inflight' = Idle)
      ]_vars

\* A start has failed with DestinationNotFound.
C10_Witness ==
    /\ req.op = "start"
    /\ resp = DestinationNotFound

\* The step takes a start request past its validation, to its first provider call
StartResolves == inflight = Idle /\ inflight' # Idle

\* The text holds one of the address indicators as a word of its own
HasAddressToken(s) ==
    \E k \in 1..Len(address_indicators), i \in 1..Len(s) :
        MatchesWordAt(s, address_indicators[k], i)

HasDigit(s) == \E i \in 1..Len(s) : IsDigit(Char(s, i))

MatchesGenericTerm(s) == \E t \in 1..Len(generic_terms) : Contains(s, generic_terms[t])

\* The destinations whose normalized text matches a generic term and holds
\* neither an address token nor a digit
generic_queries ==
    {t \in Destinations :
        /\ MatchesGenericTerm(cleaned_destination_of[t])
        /\ ~HasAddressToken(cleaned_destination_of[t])
        /\ ~HasDigit(cleaned_destination_of[t])}

\* C11: a destination whose normalized text matches a generic term and holds
\* no street-address token and no digit is classified generic, and the start
\* searches nearby before any directions call; "the nearest Starbucks!" is
\* normalized to "starbucks" and is such a destination.
C11_GenericTriggersNearbySearch ==
    [][ /\ "the nearest Starbucks!" \in generic_queries
        /\ cleaned_destination_of["the nearest Starbucks!"] = "starbucks"
        /\ (StartResolves /\ inflight'.frame.destination \in generic_queries)
              => (inflight'.pc = "find_nearest_place" /\ inflight'.radius = 5000)
      ]_vars

\* The destinations that hold a digit or an address indicator
specific_destinations ==
    {t \in Destinations :
        \/ HasDigit(cleaned_destination_of[t])
        \/ \E k \in 1..Len(address_indicators) :
              Contains(cleaned_destination_of[t], address_indicators[k])}

\* C12: a start for a destination that holds a digit or a street-address
\* token makes no nearby search: its first provider call is the directions
\* call, with the normalized text as the destination.
C12_SpecificBypassesNearbySearch ==
    [][(StartResolves /\ inflight'.frame.destination \in specific_destinations)
          => /\ inflight'.pc = "directions"
             /\ inflight'.final_destination
                   = cleaned_destination_of[inflight'.frame.destination]
      ]_vars

\* A start for a destination with a generic term and a street-address token
\* is waiting for its directions call.
C12_Witness ==
    /\ inflight.pc = "directions"
    /\ inflight.frame.destination = "Target on Broad Street"
    /\ inflight.final_destination = "target on broad street"

\* C13: while a provider call of a start request is outstanding, a location
\* update on an open stream of another session that is in the store is
\* served: the handler of the stream can take its step.
C13_UpdatesNotStalledByProviderCall ==
    \A c \in DOMAIN nav_ws :
        (/\ inflight # Idle
         /\ nav_ws[c].state = "open"
         /\ nav_ws[c].session_id \in Sessions \ {inflight.frame.session_id})
        => ENABLED (\E m \in LocationMessages : NavWsLocation(c, m))

\* The frame numbers 1, 2, ..., in that order
InOrder(seq) == \A i \in 1..Len(seq) : seq[i] = i

\* What the main loop answers to a frame on the stream of session s
AnswerTo(msg, s) ==
    IF msg.kind = "location" THEN update_location(active_navigations, s, msg.d).ret
    ELSE IF msg.kind = "missing" THEN WsError("Missing latitude or longitude")
    ELSE WsError("exception")

\* C14: the frames of one navigation stream are applied in the order the
\* client sent them, none skipped: the round that serves the k-th frame
\* applies that frame to the store as the rounds before it left it and sends
\* its answer before the next frame is received.
C14_AppliedInReceiptOrder ==
    [][\A c \in DOMAIN served :
          /\ InOrder(served'[c])
          /\ (served'[c] # served[c] /\ served'[c] # << >>) =>
                /\ req'.op = "ws_location"
                /\ req'.msg = Head(inbox[c].frames).msg
                /\ resp' = AnswerTo(Head(inbox[c].frames).msg, nav_ws[c].session_id)
                /\ inbox'[c].frames = Tail(inbox[c].frames)
      ]_vars

\* Two frames of a stream have been served while a third was waiting.
C14_Witness ==
    \E c \in DOMAIN served : Len(served[c]) >= 2 /\ inbox[c].frames # << >>

\* The step ends the navigation stream bound to s: the client closed it, or
\* its handler raised
StreamEnds(s) ==
    /\ req'.op \in {"ws_disconnect", "ws_location"}
    /\ req'.session_id = s
    /\ resp'.status = "disconnected" \/ resp' = WsError("exception")

\* C15: when the client closes a navigation stream bound to s, when the
\* handler of such a stream fails, and when a stop for s is served, s is not
\* in the store afterwards, and the other sessions are as they were.
C15_CloseOrStopRemovesSession ==
    [][\A s \in SessionIds :
          (StreamEnds(s) \/ StopStep(s)) =>
             /\ s \notin Sessions'
             /\ active_navigations' = stop_navigation(active_navigations, s)
      ]_vars

\* The client has closed the stream of one session while another session
\* stays in the store.
C15_Witness ==
    /\ req.op = "ws_disconnect"
    /\ req.session_id \in SessionIds \ Sessions
    /\ Sessions # {}

\* The step serves the message msg of a location stream
LocationStep(msg) == req'.op = "loc_message" /\ req'.msg = msg

\* A message with its session id and both coordinates
ValidFix(msg) ==
    /\ msg.kind = "json"
    /\ msg.session_id # None
    /\ msg.latitude # None
    /\ msg.longitude # None

NoStops(a) == a.kind = "exception" \/ a.status_code # 200 \/ a.stops = << >>

NoPlan(a) == a.kind = "exception" \/ a.status_code # 200 \/ a.results = << >>

NoRoutes(a) == a.kind = "exception" \/ a.status_code # 200 \/ a.routes = << >>

C18_PlanReturnsOptions ==
    [][\A a \in PlanAnswers, b \in NearbyRoutesAnswers :
          (/\ TransitPlanTrip(a, b)
           /\ a.kind = "http"
           /\ a.status_code = 200
           /\ Len(a.results) \in 1..num_result)
          => /\ resp'.status = "success"
             /\ Len(resp'.options) = Len(a.results)
             /\ \A i \in 1..Len(a.results) :
                   /\ resp'.options[i].duration_min = a.results[i].duration \div 60
                   /\ \A j \in 1..Len(a.results[i].legs) :
                         resp'.options[i].legs[j].type = a.results[i].legs[j].leg_mode
      ]_vars

\* The start request lacks an input: its session_id, its destination, or a
\* location (neither a stored one nor an origin of its own)
LacksInput(s, t, o) == s = None \/ t = None \/ (s \notin DOMAIN user_locations /\ ~o)

\* C19: when the directions provider finds no walking route for a start, the
\* start goes on to plan a transit trip before it reports a failure; when it
\* finds a walking route, the start succeeds with that route.
C19_TransitFallbackOnNoWalkingRoute ==
    [][\A a \in DirectionsAnswers :
          Directions(a) =>
             /\ a.kind = "empty" =>
                   inflight'.pc \in {"transit_find_nearest_place", "geocode",
                                     "nearest_stop", "plan_trip"}
             /\ a.kind = "route" =>
                   (resp'.status = "success" /\ Len(resp'.directions.steps) = a.n)
      ]_vars

\* C20: a start request without session_id or destination, or with neither
\* a stored location nor an origin, is answered 400 with a message that
\* names what is missing, makes no provider call and leaves the sessions as
\* they were; a start request that lacks nothing is not answered 400.
C20_StartRejectsMissingInput ==
    [][\A s \in SessionIds \cup {None}, t \in Destinations \cup {None}, o \in BOOLEAN :
          StartRequest(s, t, o) =>
             IF LacksInput(s, t, o)
             THEN /\ resp' = HttpError(400, IF s = None \/ t = None
                                            THEN "Missing session_id or destination"
                                            ELSE "Location not found")
                  /\ inflight' = Idle
                  /\ active_navigations' = active_navigations
             ELSE ~(resp'.status = "error" /\ resp'.code = 400)
      ]_vars

\* A start without an origin has been refused for want of a location while
\* the location of another session is stored.
C20_Witness ==
    /\ req.op = "start"
    /\ resp = HttpError(400, "Location not found")
    /\ req.session_id \notin DOMAIN user_locations
    /\ DOMAIN user_locations # {}

\* The session s is in the store, on a step before its final one
BeforeFinalStep(s) ==
    /\ s \in Sessions
    /\ active_navigations[s].current_step_index + 1 < Len(active_navigations[s].steps)

\* C21: an update with d < 20 m on a step that is not the last one adds
\* exactly 1 to current_step_index, resets last_announcement to None, keeps
\* the session in the store and answers step_completed with should_announce
\* true, the instruction and the announcement being those of the new step.
C21_StepCompleted ==
    [][\A s \in SessionIds :
          (UpdateStep(s) /\ BeforeFinalStep(s) /\ req'.msg.d < 20) =>
             /\ s \in Sessions'
             /\ active_navigations'[s].current_step_index
                   = active_navigations[s].current_step_index + 1
             /\ active_navigations'[s].last_announcement = None
             /\ active_navigations'[s].steps = active_navigations[s].steps
             /\ resp'.status = "step_completed"
             /\ resp'.should_announce
             /\ LET new_step == active_navigations[s].steps[
                                    active_navigations'[s].current_step_index + 1]
                IN  /\ resp'.instruction = new_step.instruction
                    /\ resp'.announcement = Instruction(new_step.instruction)
      ]_vars

\* A step has been completed after a tier had been announced on it.
C21_Witness ==
    /\ req.op = "ws_location"
    /\ resp.status = "step_completed"
    /\ req.session_id \in Sessions
    /\ req.session_id \in Listeners
    /\ active_navigations[req.session_id].current_step_index = 1
    /\ active_navigations[req.session_id].last_announcement = None

\* The tier whose window holds d, None outside the windows
TierOf(d) ==
    IF 90 <= d /\ d <= 110 THEN "100m"
    ELSE IF 40 <= d /\ d <= 60 THEN "50m"
    ELSE IF 20 <= d /\ d <= 30 THEN "25m"
    ELSE None

\* The step serves an update of the listened session s at a distance inside
\* the window of a tier that has not been announced on the current step
FreshTierUpdate(s) ==
    /\ UpdateStep(s)
    /\ s \in Sessions
    /\ active_navigations[s].current_step_index < Len(active_navigations[s].steps)
    /\ TierOf(req'.msg.d) # None
    /\ TierOf(req'.msg.d) \notin heard[s]

\* The update answers navigating with an announcement and records the tier
AnnouncesTier(s) ==
    /\ resp'.status = "navigating"
    /\ resp'.should_announce
    /\ resp'.announcement # NoAnnouncement
    /\ s \in Sessions'
    /\ active_navigations'[s].last_announcement = TierOf(req'.msg.d)

\* C22 as stated: an update in the window of a tier not yet announced on the
\* current step answers navigating with should_announce true and a
\* non-empty announcement, and records the tier.
C22_WindowAnnounces ==
    [][\A s \in Listeners : FreshTierUpdate(s) => AnnouncesTier(s)]_vars

\* C22, amended: as stated for d up to 100 m, and for d between 100 m and
\* 110 m when the tier recorded last is "far"; for d between 100 m and 110 m
\* otherwise the update records "far" and announces nothing.
C22_WindowAnnouncesUnlessFar ==
    [][\A s \in Listeners :
          FreshTierUpdate(s) =>
             IF req'.msg.d <= 100 \/ active_navigations[s].last_announcement = "far"
             THEN AnnouncesTier(s)
             ELSE /\ resp'.status = "navigating"
                  /\ ~resp'.should_announce
                  /\ active_navigations'[s].last_announcement = "far"
      ]_vars

\* The 25 m tier has been announced at the near end of its window, after the
\* 100 m and 50 m tiers on the same step.
C22_Witness ==
    /\ req.op = "ws_location"
    /\ req.msg.kind = "location"
    /\ req.msg.d = 20
    /\ resp.status = "navigating"
    /\ resp.should_announce
    /\ req.session_id \in Listeners
    /\ heard[req.session_id] = {"100m", "50m", "25m"}

\* The places provider fails during the search: the nearby search raises, or
\* it returns nothing and the text search after it raises
PlacesFailure(nearby, text) ==
    nearby = "error" \/ (nearby = "empty" /\ text = "error")

\* C23: a transport or provider error during a provider call, the
\* resolver's nearby search included, ends the request at once with a
\* provider error and no further provider call is made; the second search
\* at 10 km follows only a search that returned nothing.
C23_ProviderErrorSurfaced ==
    [][/\ \A nearby, text \in PlacesAnswers :
             (FindNearestPlace(nearby, text) /\ PlacesFailure(nearby, text)) =>
                /\ inflight' = Idle
                /\ resp'.status = "error"
                /\ resp'.detail # "Could not find any place near your location"
       /\ \A answer \in DirectionsAnswers :
             (Directions(answer) /\ answer.kind \in {"ApiError", "TransportError"}) =>
                /\ inflight' = Idle
                /\ resp'.status = "error"
                /\ resp'.detail \in {"Google Maps API error", "TransportError"}
      ]_vars

\* The step is an update, a start or a stop for the session id s1
OperationFor(s1) ==
    /\ req'.op \in {"start", "stop", "ws_location"}
    /\ req'.session_id = s1

\* C24: an update, a start or a stop for the session id s1 leaves the record
\* of every other session id s2 (steps, step index, announced tier, presence
\* in the store) as it was.
C24_OtherSessionsUntouched ==
    [][\A s1, s2 \in SessionIds :
          (OperationFor(s1) /\ s2 # s1) =>
             /\ (s2 \in Sessions') = (s2 \in Sessions)
             /\ s2 \in Sessions => active_navigations'[s2] = active_navigations[s2]
      ]_vars

\* s1 has been stopped while s2, which had completed a step, is in the store.
C24_Witness ==
    /\ req.op = "stop"
    /\ req.session_id = "s1"
    /\ "s1" \notin Sessions
    /\ "s2" \in Sessions
    /\ active_navigations["s2"].current_step_index = 1

\* The step serves a message of the location stream c, which an earlier
\* message has bound to a session id
BoundLocationMessage(c) ==
    /\ req'.op = "loc_message"
    /\ req'.conn = c
    /\ loc_ws[c].session_id # None

\* C25: every message of a stream is applied to the session id the stream
\* is bound to: a message of a location stream that is bound to a session
\* id neither writes nor removes the location of another session id.
C25_StreamKeepsItsSession ==
    [][\A c \in DOMAIN loc_ws :
          BoundLocationMessage(c) =>
             \A s \in SessionIds \ {loc_ws[c].session_id} :
                /\ (s \in DOMAIN user_locations') = (s \in DOMAIN user_locations)
                /\ s \in DOMAIN user_locations => user_locations'[s] = user_locations[s]
      ]_vars

\* The route_type codes a transport mode selects
RouteTypesOf(mode) == IF mode = "bus" THEN {3} ELSE {0, 1, 2}

\* The step is the nearby_stops request of a transit request returning a
\* list of stops to the helper, the provider key being configured
NearbyStopsReturn(answer) ==
    /\ TransitNearestStop(answer)
    /\ TRANSIT_API_KEY
    /\ answer.kind = "http"
    /\ answer.status_code = 200

\* The helper returned no stop: the request ends with the error
ReturnsNoStop ==
    /\ inflight' = Idle
    /\ resp' = HttpError(400, "No nearby transit stops found near your location")

\* The helper returned the stop: the plan request is next
ReturnsStop(stop) ==
    /\ inflight'.pc = "plan_trip"
    /\ inflight'.origin_stop = stop

\* C26 as stated: with the filter bus (train) the stop returned has the bus
\* code (a rail code), and no stop is returned when no nearby stop matches
\* the filter; with no filter the first of the nearby stops is returned.
C26_NearestStopMatchesFilter ==
    [][\A answer \in NearbyStopsAnswers :
          NearbyStopsReturn(answer) =>
             LET mode == inflight.frame.mode
                 matching == SelectStops(answer.stops, RouteTypesOf(mode))
             IN  IF mode \in {"bus", "train"}
                 THEN IF matching = << >>
                      THEN ReturnsNoStop
                      ELSE /\ inflight'.pc = "plan_trip"
                           /\ inflight'.origin_stop.route_type \in RouteTypesOf(mode)
                 ELSE IF answer.stops = << >>
                      THEN ReturnsNoStop
                      ELSE ReturnsStop(answer.stops[1])
      ]_vars

\* C26, amended: with the filter bus (train) the first nearby stop that has
\* the bus code (a rail code) is returned; when no nearby stop matches the
\* filter, and when there is no filter, the first of the nearby stops is
\* returned; no stop is returned only when there is no nearby stop.
C26_NearestStopPrefersFilter ==
    [][\A answer \in NearbyStopsAnswers :
          NearbyStopsReturn(answer) =>
             LET mode == inflight.frame.mode
                 matching == SelectStops(answer.stops, RouteTypesOf(mode))
             IN  IF answer.stops = << >>
                 THEN ReturnsNoStop
                 ELSE IF mode \in {"bus", "train"} /\ matching # << >>
                 THEN /\ ReturnsStop(matching[1])
                      /\ inflight'.origin_stop.route_type \in RouteTypesOf(mode)
                 ELSE ReturnsStop(answer.stops[1])
      ]_vars

\* A request for trains has got the rail stop as its nearest stop.
C26_Witness ==
    /\ req.op = "transit"
    /\ inflight.pc = "plan_trip"
    /\ inflight.frame.mode = "train"
    /\ inflight.origin_stop.route_type = 1

\* C27: one update adds at most 1 to current_step_index, and an update
\* answers arrived only from the final step; a start that succeeds puts
\* the index at 0 and no other step than an update moves it, so that a session of N steps
\* is N updates away from arrival at the least.
C27_OneStepPerUpdate ==
    [][\A s \in SessionIds :
          /\ (UpdateStep(s) /\ s \in Sessions /\ s \in Sessions') =>
                active_navigations'[s].current_step_index
                   <= active_navigations[s].current_step_index + 1
          /\ (UpdateStep(s) /\ s \in Sessions /\ resp'.status = "arrived") =>
                active_navigations[s].current_step_index
                   = Len(active_navigations[s].steps) - 1
          /\ (StartReturns(s) /\ resp'.status = "success") =>
                /\ s \in Sessions'
                /\ active_navigations'[s].current_step_index = 0
          /\ (/\ ~UpdateStep(s)
              /\ ~(StartReturns(s) /\ resp'.status = "success")
              /\ s \in Sessions /\ s \in Sessions') =>
                active_navigations'[s].current_step_index
                   = active_navigations[s].current_step_index
      ]_vars

\* A session of two steps has arrived, its first step having been completed
\* by an earlier update.
C27_Witness ==
    /\ req.op = "ws_location"
    /\ req.msg.kind = "location"
    /\ req.msg.d < 20
    /\ resp.status = "arrived"
    /\ resp.total_steps = MaxSteps
    /\ req.session_id \notin Sessions

\* C28: a start request that reaches the service takes the location stored
\* for its session id as the origin of the route, also when the request
\* carries an origin of its own; the origin of the request is taken only
\* when no location is stored for the session id.
C28_StoredFixIsOrigin ==
    [][\A s \in SessionIds, t \in Destinations, o \in BOOLEAN :
          (StartRequest(s, t, o) /\ inflight' # Idle) =>
             IF s \in DOMAIN user_locations
             THEN /\ inflight'.frame.origin.latitude = user_locations[s].latitude
                  /\ inflight'.frame.origin.longitude = user_locations[s].longitude
             ELSE /\ o
                  /\ inflight'.frame.origin = RequestOrigin
      ]_vars

\* A start request is on its way to the directions provider with the
\* location stored for its session id as the origin.
C28_Witness ==
    /\ req.op = "start"
    /\ inflight.pc = "directions"
    /\ inflight.frame.session_id \in DOMAIN user_locations
    /\ inflight.frame.origin = user_locations[inflight.frame.session_id]

\* The step is an explicit stop for s, or an update on which s arrives
StopOrArrival(s) ==
    \/ req'.op = "stop" /\ req'.session_id = s
    \/ UpdateStep(s) /\ resp'.status = "arrived"

\* C29: while a navigation stream bound to s stays open, s stays in the
\* session store over every step that is neither an explicit stop for s
\* nor the arrival of s, other streams connecting to or disconnecting from
\* the same session id included.
C29_OpenStreamKeepsSession ==
    [][\A c \in DOMAIN nav_ws, s \in SessionIds :
          (/\ nav_ws[c].state = "open" /\ nav_ws[c].session_id = s
           /\ nav_ws'[c].state = "open" /\ nav_ws'[c].session_id = s
           /\ s \in Sessions
           /\ ~StopOrArrival(s)) =>
             s \in Sessions'
      ]_vars

\* C30: once a location stream has closed or failed, no location written
\* through it remains in the store; every location being written through
\* some stream, the store is empty whenever all the streams are closed.
C30_ClosedStreamsLeaveNoFix ==
    (\A c \in DOMAIN loc_ws : loc_ws[c].state = "closed") => user_locations = << >>

====
